---- MODULE Spec2Model ----
(***************************************************************************)
(* zero-kernel (zkb): the command dispatch of zkb/__main__.py, the         *)
(* argument validation of zkb/configs/argument.py, the ParanoidAndroid     *)
(* codename mapping of zkb/clients/pa.py, and the components main() drives *)
(* (container engine, resource manager, kernel builder, assets collector). *)
(*                                                                         *)
(* Python values that the code compares across types are tagged pairs      *)
(* <<type, value>>: a str is <<"str", s>>, an Enum member is               *)
(* <<class name, member name>>, None is <<"NoneType", "None">>.  Enum      *)
(* members of different classes are different values even when their       *)
(* .value strings agree, and a str never equals an Enum member (none of    *)
(* the Enum classes of zkb/enums.py mixes in str).                         *)
(***************************************************************************)
EXTENDS Naturals, Integers, Sequences, FiniteSets, TLC

VARIABLES
    \* ---- main() ----
    args,        \* argparse.Namespace returned by parse_args()
    host,        \* the machine main() runs on
    pc,          \* position in main()
    acfg,        \* ArgumentConfig built at line 218 (NoConfig before)
    err,         \* first error logged / raised
    exit_code,   \* process exit status (-1 while running)
    branch,      \* which case of `match args.benv` ran
    ran,         \* pipelines run on the host by main()
    \* ---- the with statement over GenericContainerEngine ----
    engine,      \* the engine's configuration and its image cache
    session,     \* ContainerSession state
    wpc,         \* position in the with statement
    body,        \* how the body of the with statement ended
    teardowns,   \* teardown calls made
    wexit,       \* process exit status (-1 while running)
    \* ---- ResourceManager ----
    rkey,        \* the manager's ResourceKey
    cache,       \* state of the cached copy for rkey
    fetches,     \* fetches made for rkey
    returned,    \* paths resolve has returned
    rcalls,      \* resolve calls made
    rstatus,     \* "ok", or "ResourceFetchError" once a fetch failed
    invalidated, \* the cached copy was invalidated from outside
    \* ---- ParanoidAndroidApiClient ----
    pa_client,   \* the client object
    pa_results,  \* codename -> the results map_codename has returned for it
    \* ---- KernelBuilder / AssetsCollector run ----
    ppl,         \* the pipeline object
    pstage,      \* the stage the run is at
    peffects,    \* the stages' effects so far
    presult      \* "running", "success" or the error raised

mainVars == <<args, host, pc, acfg, err, exit_code, branch, ran>>
sessionVars == <<engine, session, wpc, body, teardowns, wexit>>
resourceVars == <<rkey, cache, fetches, returned, rcalls, rstatus, invalidated>>
paVars == <<pa_client, pa_results>>
pipelineVars == <<ppl, pstage, peffects, presult>>
componentVars == <<sessionVars, resourceVars, paVars, pipelineVars>>
vars == <<mainVars, componentVars>>

----------------------------------------------------------------------------
(* zkb/enums.py *)

None == <<"NoneType", "None">>
Str(s) == <<"str", s>>

EnumCommand == {<<"EnumCommand", "KERNEL">>, <<"EnumCommand", "ASSETS">>, <<"EnumCommand", "BUNDLE">>}
EnumContainerEnvironment == {<<"EnumContainerEnvironment", "DOCKER">>, <<"EnumContainerEnvironment", "PODMAN">>}
EnumEnvironment == {<<"EnumEnvironment", "LOCAL">>, <<"EnumEnvironment", "DOCKER">>, <<"EnumEnvironment", "PODMAN">>}
EnumPackageType == {<<"EnumPackageType", "CONAN">>, <<"EnumPackageType", "SLIM">>, <<"EnumPackageType", "FULL">>}
EnumChroot == {<<"EnumChroot", "FULL">>, <<"EnumChroot", "MINIMAL">>}
EnumKernelBase == {<<"EnumKernelBase", "LOS">>, <<"EnumKernelBase", "PA">>, <<"EnumKernelBase", "X">>, <<"EnumKernelBase", "AOSP">>}

\* member.value: every member's value is its name in lower case
EnumValue(m) ==
    CASE m[2] = "KERNEL" -> "kernel" [] m[2] = "ASSETS" -> "assets" [] m[2] = "BUNDLE" -> "bundle"
      [] m[2] = "LOCAL" -> "local" [] m[2] = "DOCKER" -> "docker" [] m[2] = "PODMAN" -> "podman"
      [] m[2] = "CONAN" -> "conan" [] m[2] = "SLIM" -> "slim" [] m[2] = "FULL" -> "full"
      [] m[2] = "MINIMAL" -> "minimal"
      [] m[2] = "LOS" -> "los" [] m[2] = "PA" -> "pa" [] m[2] = "X" -> "x" [] m[2] = "AOSP" -> "aosp"

\* pydantic's validation of a field declared with an Enum type: a member of the
\* class is kept, a str equal to a member's value becomes that member.
Coerce(cls, v) ==
    IF v \in cls THEN v
    ELSE IF v[1] = "str" /\ \E m \in cls : EnumValue(m) = v[2]
         THEN CHOOSE m \in cls : EnumValue(m) = v[2]
         ELSE None

----------------------------------------------------------------------------
(* zkb/__main__.py, parse_args: the Namespace each sub-command produces.   *)
(* args is the Namespace the parsers declare: a sub-parser sets only the   *)
(* dests of its own add_argument calls, --build-env holds one of its       *)
(* choices, tuple(EnumEnvironment), and --base one of tuple(EnumKernelBase).*)
(* main() is modelled from such a Namespace on.  The conversion argparse   *)
(* is given for these two options (type=<Enum>.from_string, enums.py       *)
(* 39-44 and 66-71) is outside this model: as written it looks the string  *)
(* up among the member names of EnumCommand, so no command-line string     *)
(* converts to one of the declared choices.                                *)

NoPath == [given |-> FALSE, absolute |-> FALSE, is_file |-> FALSE]
Paths ==
    { NoPath,
      [given |-> TRUE, absolute |-> FALSE, is_file |-> TRUE],
      [given |-> TRUE, absolute |-> TRUE,  is_file |-> TRUE],
      [given |-> TRUE, absolute |-> TRUE,  is_file |-> FALSE] }

Codenames == {"dumpling", "cheeseburger", "unknown-device"}
Bases == {<<"EnumKernelBase", "LOS">>, <<"EnumKernelBase", "PA">>}
Lkv == "4.14"

KernelArgs ==
    [ command : {Str("kernel")}, clean_root : BOOLEAN,
      benv : EnumEnvironment, base : Bases, codename : Codenames, lkv : {Str(Lkv)},
      ksu : BOOLEAN, defconfig : Paths, clean_image : BOOLEAN, clean_kernel : BOOLEAN ]

AssetsArgs ==
    [ command : {Str("assets")}, clean_root : BOOLEAN,
      benv : EnumEnvironment, base : Bases, codename : Codenames,
      ksu : BOOLEAN, clean_image : BOOLEAN,
      chroot : {Str("full"), Str("minimal")}, rom_only : BOOLEAN, clean_assets : BOOLEAN ]

BundleArgs ==
    [ command : {Str("bundle")}, clean_root : BOOLEAN,
      benv : EnumEnvironment, base : Bases, codename : Codenames, lkv : {Str(Lkv)},
      ksu : BOOLEAN, defconfig : Paths, clean_image : BOOLEAN,
      package_type : {Str("conan"), Str("slim"), Str("full")}, conan_upload : BOOLEAN ]

parse_args == KernelArgs \cup AssetsArgs \cup BundleArgs

HasAttr(ns, name) == name \in DOMAIN ns

\* the host: platform.system() and whether `apt --version` can be launched
Hosts == {"debian", "linux_other", "non_linux"}
platform_system(h) == IF h = "non_linux" THEN "Other" ELSE "Linux"
apt_launches(h) == h = "debian"

\* zkb/manifests/devices.json: the supported codenames
Devices == {"dumpling", "cheeseburger"}

----------------------------------------------------------------------------
(* zkb/configs/argument.py *)

NoConfig == [built |-> FALSE]

\* ArgumentConfig(**vars(args)): fields missing from the Namespace take their
\* declared defaults, extra keys (clean_root) are ignored, Enum-typed fields
\* are coerced, and line 214 has made a relative defconfig absolute.
ArgumentConfig(ns) ==
    [ built |-> TRUE,
      benv |-> Coerce(EnumEnvironment, ns.benv),
      command |-> Coerce(EnumCommand, ns.command),
      codename |-> ns.codename,
      package_type |-> IF HasAttr(ns, "package_type") THEN Coerce(EnumPackageType, ns.package_type) ELSE None,
      conan_upload |-> IF HasAttr(ns, "conan_upload") THEN ns.conan_upload ELSE FALSE,
      defconfig |-> IF HasAttr(ns, "defconfig") THEN ns.defconfig ELSE NoPath ]

\* what log.error reports before sys.exit(1); NoErr when every check passes
ErrNonLinux == <<"log.error", "Can't build kernel on a non-Linux machine.">>
ErrNotDebian == <<"log.error", "Detected Linux distribution is not Debian-based.">>
ErrCodename == <<"log.error", "Unsupported device codename specified.">>
ErrConan == <<"log.error", "Cannot use Conan-related arguments with non-Conan packaging">>
ErrDefconfig == <<"log.error", "Provided path to defconfig is invalid.">>
NoErr == <<"none", "">>

\* the platform check of check_settings, lines 58-68
PlatformCheck(c, h) ==
    IF c.benv = <<"EnumEnvironment", "LOCAL">>
       /\ c.command \in {<<"EnumCommand", "KERNEL">>, <<"EnumCommand", "BUNDLE">>}
    THEN IF platform_system(h) # "Linux" THEN ErrNonLinux
         ELSE IF ~apt_launches(h) THEN ErrNotDebian
         ELSE NoErr
    ELSE NoErr

CodenameCheck_dropped(c) == NoErr

\* the manifest check, lines 71-78
CodenameCheck(c) == IF c.codename \notin Devices THEN ErrCodename ELSE NoErr

ConanCheck_inverted(c) ==
    IF c.command = <<"EnumCommand", "BUNDLE">>
       /\ c.package_type = <<"EnumPackageType", "CONAN">> /\ c.conan_upload
    THEN ErrConan ELSE NoErr

\* the Conan check, lines 79-83
ConanCheck(c) ==
    IF c.command = <<"EnumCommand", "BUNDLE">>
       /\ c.package_type # <<"EnumPackageType", "CONAN">> /\ c.conan_upload
    THEN ErrConan ELSE NoErr

\* the defconfig check, lines 86-88
DefconfigCheck(c) ==
    IF c.defconfig.given /\ ~c.defconfig.is_file THEN ErrDefconfig ELSE NoErr

check_settings_codename_first(c, h) ==
    IF CodenameCheck(c) # NoErr THEN CodenameCheck(c)
    ELSE IF PlatformCheck(c, h) # NoErr THEN PlatformCheck(c, h)
    ELSE IF ConanCheck(c) # NoErr THEN ConanCheck(c)
    ELSE DefconfigCheck(c)

\* check_settings: the error of the first failing check, in the code's order
check_settings(c, h) ==
    IF PlatformCheck(c, h) # NoErr THEN PlatformCheck(c, h)
    ELSE IF CodenameCheck(c) # NoErr THEN CodenameCheck(c)
    ELSE IF ConanCheck(c) # NoErr THEN ConanCheck(c)
    ELSE DefconfigCheck(c)

----------------------------------------------------------------------------
(* zkb/__main__.py, main *)

\* lines 213-214: a relative defconfig is made absolute; the str comparison
\* with "assets" keeps the assets Namespace, which has no defconfig, untouched
NormaliseDefconfig(ns) ==
    IF ns.command # Str("assets") /\ ns.defconfig.given
    THEN [ns EXCEPT !.defconfig.absolute = TRUE]
    ELSE ns

\* lines 222-227: the value patterns of `match args.benv`, compared with ==
MatchBenv(benv) ==
    IF benv = <<"EnumContainerEnvironment", "DOCKER">> \/ benv = <<"EnumContainerEnvironment", "PODMAN">>
    THEN "container"
    ELSE IF benv = <<"EnumEnvironment", "LOCAL">> THEN "local"
    ELSE "none"

\* the first attribute of `names` the Namespace lacks ("" when it has them all)
RECURSIVE FirstMissing(_, _)
FirstMissing(ns, names) ==
    IF names = <<>> THEN ""
    ELSE IF ~HasAttr(ns, Head(names)) THEN Head(names)
    ELSE FirstMissing(ns, Tail(names))

\* lines 228-240: the attributes read, in order, to construct KernelBuilder
KernelBuilderAttrs == <<"codename", "base", "lkv", "clean_kernel", "ksu", "defconfig", "codename", "lkv", "base">>
\* lines 241-248: the attributes read, in order, to construct AssetsCollector
AssetsCollectorAttrs == <<"codename", "base", "chroot", "clean_assets", "rom_only", "ksu">>

AttributeError(name) == <<"AttributeError", name>>

\* lines 250-266: the value patterns of `match args.command`
MatchCommand(command) ==
    IF command = <<"EnumCommand", "KERNEL">> THEN {"KernelBuilder.run"}
    ELSE IF command = <<"EnumCommand", "ASSETS">> THEN {"AssetsCollector.run"}
    ELSE IF command = <<"EnumCommand", "BUNDLE">> THEN {"BundleCommand.execute"}
    ELSE {}

\* a component that is not part of the run under study
SessionIdle ==
    /\ engine = [benv |-> "", command |-> "", clean_image |-> FALSE, image_cached |-> FALSE]
    /\ session = "UNINITIALIZED" /\ wpc = "idle" /\ body = "none" /\ teardowns = 0 /\ wexit = -1
ResourceIdle ==
    /\ rkey = <<None, None>> /\ cache = "absent" /\ fetches = 0 /\ returned = {}
    /\ rcalls = 0 /\ rstatus = "idle" /\ invalidated = FALSE
PaIdle == pa_client = [codename |-> ""] /\ pa_results = <<>>
PipelineIdle == ppl = [kind |-> "none"] /\ pstage = "idle" /\ peffects = {} /\ presult = "idle"
MainIdle ==
    /\ host = "debian" /\ pc = "idle" /\ acfg = NoConfig /\ err = NoErr
    /\ exit_code = -1 /\ branch = "none" /\ ran = {}

Init ==
    /\ args \in parse_args
    /\ host \in Hosts
    /\ pc = "main"
    /\ acfg = NoConfig
    /\ err = NoErr
    /\ exit_code = -1
    /\ branch = "none"
    /\ ran = {}
    /\ SessionIdle /\ ResourceIdle /\ PaIdle /\ PipelineIdle

\* lines 204-206: --clean at the root cleans and exits 0
CleanRoot ==
    /\ pc = "main"
    /\ args.clean_root
    /\ pc' = "exited"
    /\ exit_code' = 0
    /\ UNCHANGED <<args, host, acfg, err, branch, ran>>
    /\ UNCHANGED componentVars

\* lines 209-218
BuildConfig ==
    /\ pc = "main"
    /\ ~args.clean_root
    /\ args' = NormaliseDefconfig(args)
    /\ acfg' = ArgumentConfig(args')
    /\ pc' = "check_settings"
    /\ UNCHANGED <<host, err, exit_code, branch, ran>>
    /\ UNCHANGED componentVars

\* line 219: each failing check logs its error and calls sys.exit(1)
CheckSettings ==
    /\ pc = "check_settings"
    /\ err' = check_settings(acfg, host)
    /\ IF err' # NoErr
       THEN pc' = "exited" /\ exit_code' = 1
       ELSE pc' = "dispatch" /\ UNCHANGED exit_code
    /\ UNCHANGED <<args, host, acfg, branch, ran>>
    /\ UNCHANGED componentVars

\* lines 222-227: when no case matches, the match statement does nothing and
\* main returns
Dispatch ==
    /\ pc = "dispatch"
    /\ branch' = MatchBenv(args.benv)
    /\ IF branch' = "none"
       THEN pc' = "exited" /\ exit_code' = 0
       ELSE pc' = branch' /\ UNCHANGED exit_code
    /\ UNCHANGED <<args, host, acfg, err, ran>>
    /\ UNCHANGED componentVars

\* lines 228-240: an attribute the Namespace lacks raises AttributeError,
\* which nothing catches: the process ends with status 1
ConstructKernelBuilder ==
    /\ pc = "local"
    /\ LET missing == FirstMissing(args, KernelBuilderAttrs) IN
       IF missing # ""
       THEN pc' = "exited" /\ exit_code' = 1 /\ err' = AttributeError(missing)
       ELSE pc' = "assets_collector" /\ UNCHANGED <<exit_code, err>>
    /\ UNCHANGED <<args, host, acfg, branch, ran>>
    /\ UNCHANGED componentVars

\* lines 241-266: AssetsCollector is constructed, then the command is matched
ConstructAssetsCollectorAndRun ==
    /\ pc = "assets_collector"
    /\ LET missing == FirstMissing(args, AssetsCollectorAttrs) IN
       IF missing # ""
       THEN pc' = "exited" /\ exit_code' = 1 /\ err' = AttributeError(missing) /\ UNCHANGED ran
       ELSE pc' = "exited" /\ exit_code' = 0 /\ ran' = MatchCommand(args.command) /\ UNCHANGED err
    /\ UNCHANGED <<args, host, acfg, branch>>
    /\ UNCHANGED componentVars

Next ==
    \/ CleanRoot
    \/ BuildConfig
    \/ CheckSettings
    \/ Dispatch
    \/ ConstructKernelBuilder
    \/ ConstructAssetsCollectorAndRun

Spec == Init /\ [][Next]_vars

----------------------------------------------------------------------------
(* zkb/__main__.py lines 224-225:                                          *)
(*     with GenericContainerEngine(...) as engined_cmd:                    *)
(*         ccmd.launch(engined_cmd)                                        *)
(* The engine (zkb/engines) is the ContainerSession of the design:         *)
(* start on entering the with statement, one relayed command as its body,  *)
(* teardown on leaving it.                                                 *)

ContainerBackends == {"docker", "podman"}
Commands == {"kernel", "assets", "bundle"}

WithReleases_on_success_only(outcome) == outcome = "ok"

\* the with statement calls __exit__ however its body is left: by running to
\* the end, by an exception of the relayed command, by KeyboardInterrupt
WithReleases(outcome) == outcome \in {"ok", "failed", "interrupted"}

AfterExec_failure_terminates(outcome) == IF outcome = "failed" THEN "TERMINATED" ELSE "RUNNING"

\* exec: EXECUTING goes back to RUNNING whatever the command's exit code
AfterExec(outcome) == "RUNNING"

\* the exit status main ends with after the with statement
ExitStatus(outcome) ==
    IF outcome = "ok" THEN 0 ELSE IF outcome = "failed" THEN 1 ELSE 130

SessionInit ==
    /\ engine \in [benv : ContainerBackends, command : Commands,
                   clean_image : BOOLEAN, image_cached : BOOLEAN]
    /\ session = "UNINITIALIZED"
    /\ wpc = "enter"
    /\ body = "none"
    /\ teardowns = 0
    /\ wexit = -1
    /\ args = [command |-> Str("")] /\ MainIdle
    /\ ResourceIdle /\ PaIdle /\ PipelineIdle

sessionRest == <<mainVars, resourceVars, paVars, pipelineVars>>

\* start, first half: the image is built, or reused when cached
EngineBuildImage ==
    /\ wpc = "enter" /\ session = "UNINITIALIZED"
    /\ session' = "IMAGE_READY"
    /\ engine' = [engine EXCEPT !.image_cached = TRUE]
    /\ UNCHANGED <<wpc, body, teardowns, wexit, sessionRest>>

\* start, second half: the instance runs and __enter__ returns the command
EngineRun ==
    /\ wpc = "enter" /\ session = "IMAGE_READY"
    /\ session' = "RUNNING"
    /\ wpc' = "body"
    /\ UNCHANGED <<engine, body, teardowns, wexit, sessionRest>>

\* start fails (ContainerSessionError): a session-level error ends the
\* session; __enter__ raised, so the with statement calls no __exit__
EngineStartFails ==
    /\ wpc = "enter" /\ session \in {"UNINITIALIZED", "IMAGE_READY"}
    /\ session' = "TERMINATED"
    /\ wpc' = "done"
    /\ wexit' = 1
    /\ UNCHANGED <<engine, body, teardowns, sessionRest>>

\* line 225: the relayed command begins
LaunchBegin ==
    /\ wpc = "body" /\ session = "RUNNING" /\ body = "none"
    /\ session' = "EXECUTING"
    /\ UNCHANGED <<engine, wpc, body, teardowns, wexit, sessionRest>>

\* how the with statement goes on once its body has ended with `outcome`
LeaveBody(outcome) ==
    /\ body' = outcome
    /\ IF WithReleases(outcome)
       THEN wpc' = "exit" /\ UNCHANGED wexit
       ELSE wpc' = "done" /\ wexit' = ExitStatus(outcome)

\* the relayed command completes with exit code 0
LaunchOk ==
    /\ wpc = "body" /\ session = "EXECUTING"
    /\ session' = AfterExec("ok")
    /\ LeaveBody("ok")
    /\ UNCHANGED <<engine, teardowns, sessionRest>>

\* the relayed command fails: launch raises
LaunchFails ==
    /\ wpc = "body" /\ session = "EXECUTING"
    /\ session' = AfterExec("failed")
    /\ LeaveBody("failed")
    /\ UNCHANGED <<engine, teardowns, sessionRest>>

\* KeyboardInterrupt while the body runs
Interrupted ==
    /\ wpc = "body" /\ session \in {"RUNNING", "EXECUTING"}
    /\ LeaveBody("interrupted")
    /\ UNCHANGED <<engine, session, teardowns, sessionRest>>

\* __exit__: teardown stops and removes the instance, and removes the image
\* when clean_image is set; an exception of the body then propagates
WithExit ==
    /\ wpc = "exit"
    /\ session' = "TERMINATED"
    /\ teardowns' = teardowns + 1
    /\ engine' = [engine EXCEPT !.image_cached = IF engine.clean_image THEN FALSE ELSE @]
    /\ wpc' = "done"
    /\ wexit' = ExitStatus(body)
    /\ UNCHANGED <<body, sessionRest>>

SessionNext ==
    \/ EngineBuildImage
    \/ EngineRun
    \/ EngineStartFails
    \/ LaunchBegin
    \/ LaunchOk
    \/ LaunchFails
    \/ Interrupted
    \/ WithExit

SpecSession == SessionInit /\ [][SessionNext]_vars

\* C1: once start has succeeded, the run never ends with the session in
\* RUNNING or EXECUTING: however the body of the with statement is left
\* (completion, failure of the relayed command, interruption), teardown has
\* run exactly once and the session is TERMINATED when the run is over, and
\* a run that is not over can still go on.
C1_TeardownOnEveryExit ==
    /\ (wpc = "done" /\ body # "none") => session = "TERMINATED" /\ teardowns = 1
    /\ wpc = "done" => session \notin {"RUNNING", "EXECUTING"}
    /\ wpc # "done" => ENABLED SessionNext

C1_Witness ==
    /\ wpc = "done" /\ body = "interrupted" /\ session = "TERMINATED"
    /\ teardowns = 1 /\ wexit = 130

----------------------------------------------------------------------------
(* ResourceManager (zkb/managers), constructed at lines 235-239 of         *)
(* zkb/__main__.py with the request's base and kernel version, and its     *)
(* resolve as the design describes it.                                     *)

MaxResolves == 3
Versions == {"4.4", "4.14"}

\* lines 235-239: the manager's key, from the Namespace
ResourceKey(ns) == <<ns.base, ns.lkv>>

\* the cache path, derived from the key alone
CachePath(key) == <<"cache", EnumValue(key[1]), key[2][2]>>

CacheUsable_never(status) == FALSE

\* a cached copy is used when it exists and passes the integrity check
CacheUsable(status) == status = "valid"

ResourceInit ==
    /\ \E b \in EnumKernelBase, v \in Versions : rkey = ResourceKey([base |-> b, lkv |-> Str(v)])
    /\ cache \in {"absent", "valid", "corrupt"}
    /\ fetches = 0
    /\ returned = {}
    /\ rcalls = 0
    /\ rstatus = "ok"
    /\ invalidated = FALSE
    /\ args = [command |-> Str("")] /\ MainIdle
    /\ SessionIdle /\ PaIdle /\ PipelineIdle

resourceRest == <<mainVars, sessionVars, paVars, pipelineVars>>

CanResolve == rstatus = "ok" /\ rcalls < MaxResolves

\* resolve, cached copy usable: its path is returned, nothing is fetched
ResolveCached ==
    /\ CanResolve /\ CacheUsable(cache)
    /\ rcalls' = rcalls + 1
    /\ returned' = returned \cup {CachePath(rkey)}
    /\ UNCHANGED <<rkey, cache, fetches, rstatus, invalidated, resourceRest>>

\* resolve, no usable copy: the resource is fetched and stored under the
\* key's cache path, which is returned
ResolveFetches ==
    /\ CanResolve /\ ~CacheUsable(cache)
    /\ rcalls' = rcalls + 1
    /\ fetches' = fetches + 1
    /\ cache' = "valid"
    /\ returned' = returned \cup {CachePath(rkey)}
    /\ UNCHANGED <<rkey, rstatus, invalidated, resourceRest>>

\* resolve, no usable copy and the source is unreachable or the artifact
\* fails verification: ResourceFetchError, which aborts the pipeline
ResolveFetchFails ==
    /\ CanResolve /\ ~CacheUsable(cache)
    /\ rcalls' = rcalls + 1
    /\ fetches' = fetches + 1
    /\ rstatus' = "ResourceFetchError"
    /\ UNCHANGED <<rkey, cache, returned, invalidated, resourceRest>>

\* the cached copy is removed or damaged from outside the manager
Invalidate ==
    /\ rstatus = "ok" /\ cache = "valid" /\ rcalls < MaxResolves
    /\ cache' \in {"absent", "corrupt"}
    /\ invalidated' = TRUE
    /\ UNCHANGED <<rkey, fetches, returned, rcalls, rstatus, resourceRest>>

ResourceNext ==
    \/ ResolveCached
    \/ ResolveFetches
    \/ ResolveFetchFails
    \/ Invalidate

SpecResource == ResourceInit /\ [][ResourceNext]_vars

\* C6: with no invalidation, every resolve of the key returns the one path
\* derived from the key, at most one fetch is made for it, and once a valid
\* copy is cached no later resolve fetches.
C6_ResolveIdempotent ==
    /\ [](~invalidated =>
            /\ fetches <= 1
            /\ returned \subseteq {<<"cache", EnumValue(rkey[1]), rkey[2][2]>>}
            /\ (rcalls > 0 /\ rstatus = "ok" => returned # {} /\ cache = "valid"))
    /\ [][(cache = "valid" /\ rcalls' = rcalls + 1) =>
            (fetches' = fetches /\ returned' = {<<"cache", EnumValue(rkey[1]), rkey[2][2]>>})]_vars

C6_Witness ==
    /\ ~invalidated /\ rcalls = 3 /\ fetches = 1 /\ rstatus = "ok"
    /\ Cardinality(returned) = 1

----------------------------------------------------------------------------
(* zkb/clients/pa.py *)

PACodenames == {"dumpling", "cheeseburger", "oneplus5t", "oneplus5", "guacamole", "unknown-device"}

\* lines 17-20
specials == [c \in {"dumpling", "cheeseburger"} |->
                IF c = "dumpling" THEN "oneplus5t" ELSE "oneplus5"]

map_codename_one_special(self) ==
    IF self.codename = "dumpling" THEN "oneplus5t" ELSE self.codename

\* lines 15-21
map_codename(self) ==
    IF self.codename \in DOMAIN specials THEN specials[self.codename] ELSE self.codename

\* lines 7-12: the client's fields
ParanoidAndroidApiClient(codename) ==
    [ codename |-> codename,
      endpoint |-> "https://api.paranoidandroid.co/updates/{}",
      json_key |-> "updates",
      rom_name |-> <<"EnumKernelBase", "PA">> ]

PaInit ==
    /\ \E c \in PACodenames : pa_client = ParanoidAndroidApiClient(c)
    /\ pa_results = [c \in PACodenames |-> {}]
    /\ args = [command |-> Str("")] /\ MainIdle
    /\ SessionIdle /\ ResourceIdle /\ PipelineIdle

paRest == <<mainVars, sessionVars, resourceVars, pipelineVars>>

\* a client is constructed for another codename
NewClient ==
    /\ \E c \in PACodenames : c # pa_client.codename /\ pa_client' = ParanoidAndroidApiClient(c)
    /\ UNCHANGED <<pa_results, paRest>>

\* map_codename is called on the client
MapCodename ==
    /\ pa_results' = [pa_results EXCEPT ![pa_client.codename] = @ \cup {map_codename(pa_client)}]
    /\ UNCHANGED <<pa_client, paRest>>

PaNext ==
    \/ NewClient
    \/ MapCodename

SpecPa == PaInit /\ [][PaNext]_vars

\* C7: map_codename returns "oneplus5t" for "dumpling", "oneplus5" for
\* "cheeseburger" and the codename itself for any other codename, the same
\* on every call, and a call leaves the client as it was.
C7_MapCodename ==
    /\ [](\A c \in PACodenames :
            pa_results[c] \subseteq
              { IF c = "dumpling" THEN "oneplus5t" ELSE IF c = "cheeseburger" THEN "oneplus5" ELSE c })
    /\ [][pa_results' # pa_results => pa_client' = pa_client]_vars

C7_Witness ==
    /\ pa_results["dumpling"] = {"oneplus5t"}
    /\ pa_results["cheeseburger"] = {"oneplus5"}
    /\ pa_results["guacamole"] = {"guacamole"}
    /\ pa_results["oneplus5t"] = {"oneplus5t"}

----------------------------------------------------------------------------
(* KernelBuilder and AssetsCollector (zkb/core): constructed from the      *)
(* Namespace at lines 228-248 of zkb/__main__.py, run by                   *)
(* KernelCommand.execute and AssetsCommand.execute; the stages of run are  *)
(* those of the design.                                                    *)

KernelBuilder_clean_not_passed(ns) ==
    [ kind |-> "kernel", codename |-> ns.codename, base |-> ns.base, lkv |-> ns.lkv,
      clean |-> FALSE, ksu |-> ns.ksu, defconfig |-> ns.defconfig,
      rom_only |-> FALSE, chroot |-> None ]

\* lines 228-240
KernelBuilder(ns) ==
    [ kind |-> "kernel", codename |-> ns.codename, base |-> ns.base, lkv |-> ns.lkv,
      clean |-> ns.clean_kernel, ksu |-> ns.ksu, defconfig |-> ns.defconfig,
      rom_only |-> FALSE, chroot |-> None ]

\* lines 241-248
AssetsCollector(ns) ==
    [ kind |-> "assets", codename |-> ns.codename, base |-> ns.base, lkv |-> None,
      clean |-> ns.clean_assets, ksu |-> ns.ksu, defconfig |-> NoPath,
      rom_only |-> ns.rom_only, chroot |-> ns.chroot ]

\* the Namespaces of validated local kernel and assets requests
PipelineRequests ==
    { ns \in KernelArgs \cup AssetsArgs :
        /\ ~ns.clean_root /\ ~ns.clean_image
        /\ ns.benv = <<"EnumEnvironment", "LOCAL">>
        /\ check_settings(ArgumentConfig(NormaliseDefconfig(ns)), "debian") = NoErr }

PipelineInit ==
    /\ args \in PipelineRequests
    /\ ppl = IF args.command = Str("kernel") THEN KernelBuilder(args) ELSE AssetsCollector(args)
    /\ pstage = "execute"
    /\ peffects = {}
    /\ presult = "running"
    /\ MainIdle
    /\ SessionIdle /\ ResourceIdle /\ PaIdle

pipelineRest == <<mainVars, sessionVars, resourceVars, paVars>>

\* the stage after `stage` of a KernelBuilder run
KernelStageAfter(stage, p) ==
    CASE stage = "resolve" -> IF p.ksu THEN "patch" ELSE "config"
      [] stage = "patch" -> "config"
      [] stage = "config" -> "build"
      [] stage = "build" -> "locate"
      [] stage = "locate" -> "done"

\* the stage after `stage` of an AssetsCollector run
AssetsStageAfter(stage, p) ==
    CASE stage = "release" -> "download_rom"
      [] stage = "download_rom" -> IF p.rom_only THEN "done" ELSE "download_chroot"
      [] stage = "download_chroot" -> IF p.ksu THEN "adjust" ELSE "assemble"
      [] stage = "adjust" -> "assemble"
      [] stage = "assemble" -> "done"

\* the error a failing stage raises
StageError(stage) ==
    CASE stage = "resolve" -> "ResourceFetchError"
      [] stage = "patch" -> "PatchApplyError"
      [] stage = "config" -> "ConfigApplyError"
      [] stage = "build" -> "BuildToolError"
      [] stage \in {"release", "download_rom", "download_chroot"} -> "AssetFetchError"

FailingStages == {"resolve", "patch", "config", "build", "release", "download_rom", "download_chroot"}

\* stage 1: with the clean flag the run only removes its directories
RunsFirstStage(p) == ~p.clean

\* KernelCommand.execute / AssetsCommand.execute call run; stage 1
Execute ==
    /\ pstage = "execute"
    /\ IF RunsFirstStage(ppl)
       THEN /\ pstage' = IF ppl.kind = "kernel" THEN "resolve" ELSE "release"
            /\ UNCHANGED <<peffects, presult>>
       ELSE /\ peffects' = peffects \cup {"remove_dirs"}
            /\ pstage' = "done"
            /\ presult' = "success"
    /\ UNCHANGED <<ppl, pipelineRest>>

\* a stage completes and the run goes on, or ends in success after the last
StageOk ==
    /\ pstage \notin {"execute", "done", "idle"}
    /\ peffects' = peffects \cup {pstage}
    /\ pstage' = IF ppl.kind = "kernel" THEN KernelStageAfter(pstage, ppl) ELSE AssetsStageAfter(pstage, ppl)
    /\ presult' = IF pstage' = "done" THEN "success" ELSE presult
    /\ UNCHANGED <<ppl, pipelineRest>>

\* a stage fails: its error aborts the run, later stages are not attempted
StageFails ==
    /\ pstage \in FailingStages
    /\ peffects' = peffects \cup {pstage}
    /\ pstage' = "done"
    /\ presult' = StageError(pstage)
    /\ UNCHANGED <<ppl, pipelineRest>>

PipelineNext ==
    \/ Execute
    \/ StageOk
    \/ StageFails

SpecPipeline == PipelineInit /\ [][PipelineNext]_vars

\* the request's clean flag: --clean of the kernel or of the assets command
CleanFirst == IF args.command = Str("kernel") THEN args.clean_kernel ELSE args.clean_assets

----------------------------------------------------------------------------
(* Claims about main() and check_settings, checked under Spec *)

ValidationErrors == {ErrNonLinux, ErrNotDebian, ErrCodename, ErrConan, ErrDefconfig}
PlatformErrors == {ErrNonLinux, ErrNotDebian}

\* check_settings has returned or exited
Checked == acfg.built /\ pc \notin {"main", "check_settings"}
\* check_settings returned: the request is validated
Validated == Checked /\ err \notin ValidationErrors
\* main has not gone past validation: no session, no pipeline object, no run
NothingStarted == branch = "none" /\ ran = {} /\ pc \in {"main", "check_settings", "exited"}

\* C3: a request whose codename is not in the device manifest never passes
\* validation, whatever its command and build environment: the process ends
\* with status 1 on a validation error, and no dispatch, container session or
\* pipeline happens.
C3_UnknownCodenameRejected ==
    (acfg.built /\ args.codename \notin Devices) =>
        /\ ~Validated
        /\ NothingStarted
        /\ (pc = "exited" => exit_code = 1 /\ err \in {ErrCodename} \cup PlatformErrors)

C3_Witness ==
    /\ pc = "exited" /\ acfg.built /\ args.codename = "unknown-device"
    /\ err = ErrCodename /\ exit_code = 1
    /\ args.benv = <<"EnumEnvironment", "DOCKER">> /\ args.command = Str("assets")

\* C4: a bundle request with a package type other than CONAN and upload set
\* never passes validation (status 1, nothing started); a bundle request with
\* package type CONAN is never rejected by the Conan check.
C4_UploadOnlyForConan ==
    /\ (acfg.built /\ args.command = Str("bundle")
        /\ args.package_type # Str("conan") /\ args.conan_upload) =>
            /\ ~Validated
            /\ NothingStarted
            /\ (pc = "exited" => exit_code = 1 /\ err \in ValidationErrors)
    /\ (acfg.built /\ args.command = Str("bundle") /\ args.package_type = Str("conan")) =>
            err # ErrConan

C4_Witness ==
    /\ pc = "exited" /\ err = ErrConan /\ exit_code = 1
    /\ args.package_type = Str("slim") /\ args.conan_upload
    /\ branch = "none" /\ ran = {}

PlatformRejects ==
    /\ args.benv = <<"EnumEnvironment", "LOCAL">>
    /\ args.command \in {Str("kernel"), Str("bundle")}
    /\ host # "debian"

\* C9: once check_settings is over, the error is a platform error exactly for
\* the local kernel and bundle requests on a host that is not Linux or not
\* Debian-based, whatever the codename, packaging and defconfig arguments are;
\* such a request ends with status 1 and nothing started.
C9_PlatformCheckFirst ==
    Checked =>
        /\ (err \in PlatformErrors <=> PlatformRejects)
        /\ (err = ErrNonLinux <=> PlatformRejects /\ host = "non_linux")
        /\ (PlatformRejects => pc = "exited" /\ exit_code = 1 /\ branch = "none" /\ ran = {})

C9_Witness ==
    /\ pc = "exited" /\ err = ErrNotDebian /\ exit_code = 1
    /\ args.codename \notin Devices
    /\ args.command = Str("bundle") /\ args.package_type = Str("slim") /\ args.conan_upload

\* the pipelines a command is to run
PipelinesOf(command) ==
    IF command = Str("kernel") THEN {"KernelBuilder.run"}
    ELSE IF command = Str("assets") THEN {"AssetsCollector.run"}
    ELSE {"BundleCommand.execute"}

====
